---- MODULE Spec2Model ----
(***************************************************************************)
(* Verification model of the hybrid chatbot (src/chatbot.py): small talk,   *)
(* the two Wikipedia lookups with their shared in-memory CACHE, sentence    *)
(* truncation, answer_query and the read-eval-print loop of main.           *)
(*                                                                          *)
(* Python strings are sequences of one-character strings; the fixed texts   *)
(* of the program (canned replies, message templates, the URL prefix) are   *)
(* one element each.  A JSON value handed back by a collaborator is a       *)
(* record [t, s, n]: t its Python type, s its text when it is a str, n its  *)
(* number when it is an int and its length when it is a list.               *)
(***************************************************************************)
EXTENDS Integers, Sequences, FiniteSets, TLC

VARIABLES
    CACHE,      \* chatbot.py:22, key -> (field -> value), fields "title"/"summary"
    last,       \* what the latest answer_query call did (observation)
    prev,       \* what the answer_query call before it did (observation)
    ncalls,     \* number of answer_query calls / loop turns so far
    pc,         \* main: "running", "exited" (break) or "crashed" (exception)
    out,        \* main: what the latest turn printed
    text,       \* short_sentences: its argument
    short,      \* short_sentences: its result
    secret_word,     \* hangman.py:83
    guessed_letters, \* hangman.py:89-90, the list of revealed letters
    tries,           \* hangman.py:92
    hpc,             \* hangman: "idle", "loop", "over" or "crashed"
    congrats,        \* hangman: the congratulation of line 104 was printed
    game_over,       \* hangman: the game over of line 125 was printed
    hlast,           \* hangman: what the latest guess did (observation)
    hprev,           \* hangman: what the guess before it did (observation)
    portfolio,          \* tracker: symbol -> [qty, price], hangman.py:225
    stock_prices,       \* tracker: symbol -> price, hangman.py:139
    manual_price_cache, \* tracker: symbol -> price, hangman.py:226
    use_live,           \* tracker: hangman.py:217, whether the answer was "y"
    spc,                \* tracker: "idle", "entry", "empty" or "summary"
    total_value,        \* tracker: hangman.py:293
    adds,               \* tracker: the additions made, in order (observation)
    sturns              \* tracker: number of turns of the entry loop so far

\* the chatbot's variables, the hangman's and the stock tracker's
cvars == <<CACHE, last, prev, ncalls, pc, out, text, short>>

hvars == <<secret_word, guessed_letters, tries, hpc, congrats, game_over,
           hlast, hprev>>

svars == <<portfolio, stock_prices, manual_price_cache, use_live, spc,
           total_value, adds, sturns>>

vars == <<cvars, hvars, svars>>

---------------------------------------------------------------------------
(* Bounds *)

MaxCalls == 2

MaxLen == 5

MaxTurns == 3

---------------------------------------------------------------------------
(* Characters and the str methods the program uses *)

UPPER == <<"A","B","C","D","E","F","G","H","I","J","K","L","M",
           "N","O","P","Q","R","S","T","U","V","W","X","Y","Z">>

LOWER == <<"a","b","c","d","e","f","g","h","i","j","k","l","m",
           "n","o","p","q","r","s","t","u","v","w","x","y","z">>

DIGITS == {"0","1","2","3","4","5","6","7","8","9"}

Range(f) == {f[i] : i \in DOMAIN f}

\* \w of the re module
WordChars == Range(UPPER) \cup Range(LOWER) \cup DIGITS \cup {"_"}

IsWord(c) == c \in WordChars

\* \s of the re module, and what str.strip() removes
IsSpace(c) == c \in {" ", "\t", "\n", "\r"}

\* re.I: the patterns are lower case, so a character matches by its lower case
UpperChars == Range(UPPER)

LowerChar(c) ==
    IF c \in UpperChars
    THEN LOWER[CHOOSE i \in DOMAIN UPPER : UPPER[i] = c]
    ELSE c

ToLower(s) == [i \in DOMAIN s |-> LowerChar(s[i])]

\* str.strip()
Strip(s) ==
    LET keep == {i \in DOMAIN s : ~IsSpace(s[i])}
    IN  IF keep = {} THEN <<>>
        ELSE LET lo == CHOOSE i \in keep : \A j \in keep : i <= j
                 hi == CHOOSE i \in keep : \A j \in keep : j <= i
             IN  SubSeq(s, lo, hi)

\* str.replace(' ', '_')
ReplaceSpaces(s) == [i \in DOMAIN s |-> IF s[i] = " " THEN "_" ELSE s[i]]

---------------------------------------------------------------------------
(* Small talk: chatbot.py:25-61 *)

\* \b before position p of s (p in 1..Len(s)+1)
Boundary(s, p) ==
    LET left  == p - 1 \in DOMAIN s /\ IsWord(s[p - 1])
        right == p \in DOMAIN s /\ IsWord(s[p])
    IN  left # right

\* one alternative of a pattern, found at position p of s under re.I;
\* lb / rb: whether the pattern has a \b before / after this alternative
MatchAt(s, p, alt) ==
    /\ p + Len(alt.w) - 1 <= Len(s)
    /\ \A k \in DOMAIN alt.w : LowerChar(s[p + k - 1]) = alt.w[k]
    /\ alt.lb => Boundary(s, p)
    /\ alt.rb => Boundary(s, p + Len(alt.w))

\* pattern.search(s)
Search(alts, s) == \E alt \in alts : \E p \in DOMAIN s : MatchAt(s, p, alt)

\* \b(w1|w2|...)\b
Words(ws) == {[w |-> w, lb |-> TRUE, rb |-> TRUE] : w \in ws}

GreetingWords ==
    {<<"h", "i">>,
     <<"h", "e", "l", "l", "o">>,
     <<"h", "e", "y">>,
     <<"h", "i", "y", "a">>,
     <<"h", "l", "o">>}

HowareWords ==
    {<<"h", "o", "w", " ", "a", "r", "e", " ", "y", "o", "u">>,
     <<"h", "o", "w", " ", "r", " ", "u">>,
     <<"h", "o", "w", "'", "r", "e", " ", "y", "o", "u">>,
     <<"h", "o", "w", " ", "a", "r", "e", " ", "u">>,
     <<"k", "a", "i", "s", "e", " ", "h", "o">>,
     <<"k", "y", "a", " ", "h", "a", "a", "l">>}

ImfineWords ==
    {<<"i", " ", "a", "m", " ", "f", "i", "n", "e">>,
     <<"i", "'", "m", " ", "f", "i", "n", "e">>,
     <<"m", "a", "i", "n", " ", "t", "h", "e", "e", "k", " ", "h", "o", "o", "n">>,
     <<"m", "a", "i", " ", "t", "h", "e", "e", "k", " ", "h", "u">>,
     <<"m", "a", "i", " ", "t", "h", "i", "k", " ", "h", "u">>}

ThanksWords ==
    {<<"t", "h", "a", "n", "k", "s">>,
     <<"t", "h", "a", "n", "k", " ", "y", "o", "u">>,
     <<"t", "h", "x">>,
     <<"s", "h", "u", "k", "r", "i", "y", "a">>}

FarewellWords ==
    {<<"b", "y", "e">>,
     <<"g", "o", "o", "d", "b", "y", "e">>,
     <<"s", "e", "e", " ", "y", "a">>,
     <<"e", "x", "i", "t">>,
     <<"q", "u", "i", "t">>,
     <<"a", "l", "v", "i", "d", "a">>}

\* r"\bhelp|commands\b": the two \b bind to one alternative each
HelpAlts ==
    {[w |-> <<"h", "e", "l", "p">>, lb |-> TRUE, rb |-> FALSE],
     [w |-> <<"c", "o", "m", "m", "a", "n", "d", "s">>, lb |-> FALSE, rb |-> TRUE]}

\* the rules in declaration order, each with its list of replies
SMALL_TALK ==
    <<[name |-> "greeting", pattern |-> Words(GreetingWords),
       replies |-> << <<"Hi!">>, <<"Hello">>, <<"Hey! Kaise ho?">> >>],
      [name |-> "howare", pattern |-> Words(HowareWords),
       replies |-> << <<"Main theek hoon, thank you! Aap kaise ho?">>,
                      <<"Doing well, aap batao, kaise ho?">> >>],
      [name |-> "imfine", pattern |-> Words(ImfineWords),
       replies |-> << <<"Achha! Khushi hui sunke">>,
                      <<"Great! Batao aur kuch puchna hai?">> >>],
      [name |-> "thanks", pattern |-> Words(ThanksWords),
       replies |-> << <<"Aapka swagat hai!">>, <<"No problem!">> >>],
      [name |-> "farewell", pattern |-> Words(FarewellWords),
       replies |-> << <<"Goodbye!">>, <<"See you later!">> >>],
      [name |-> "help", pattern |-> HelpAlts,
       replies |-> << <<"Aap simple questions pooch sakte hain">> >>]>>

\* the None of Python, as a reply
NoReply == <<>>

\* check_small_talk: the first reply of the first rule that matches, else None
check_small_talk_last_rule(s) ==
    LET hits == {i \in DOMAIN SMALL_TALK : Search(SMALL_TALK[i].pattern, s)}
    IN  IF hits = {} THEN NoReply
        ELSE SMALL_TALK[CHOOSE i \in hits : \A j \in hits : j <= i].replies[1]

check_small_talk(s) ==
    LET hits == {i \in DOMAIN SMALL_TALK : Search(SMALL_TALK[i].pattern, s)}
    IN  IF hits = {} THEN NoReply
        ELSE SMALL_TALK[CHOOSE i \in hits : \A j \in hits : i <= j].replies[1]

---------------------------------------------------------------------------
(* urllib.parse.quote *)

\* the characters quote() encodes, each with the two hex digits of its code
PERCENT ==
    << <<" ", "2", "0">>, <<"!", "2", "1">>, <<"#", "2", "3">>,
      <<"$", "2", "4">>, <<"%", "2", "5">>, <<"&", "2", "6">>, <<"'", "2", "7">>,
      <<"(", "2", "8">>, <<")", "2", "9">>, <<"*", "2", "A">>, <<"+", "2", "B">>,
      <<",", "2", "C">>, <<":", "3", "A">>, <<";", "3", "B">>, <<"<", "3", "C">>,
      <<"=", "3", "D">>, <<">", "3", "E">>, <<"?", "3", "F">>, <<"@", "4", "0">>,
      <<"[", "5", "B">>, <<"]", "5", "D">>, <<"^", "5", "E">>,
      <<"\n", "0", "A">>, <<"\t", "0", "9">>, <<"\r", "0", "D">>, <<"/", "2", "F">> >>

\* quote() of one character: letters, digits and _.-~ and the safe ones stay
QuoteChar(c, safe) ==
    IF IsWord(c) \/ c \in {".", "-", "~"} \cup safe THEN <<c>>
    ELSE LET i == CHOOSE i \in DOMAIN PERCENT : PERCENT[i][1] = c
         IN  <<"%", PERCENT[i][2], PERCENT[i][3]>>

RECURSIVE Quote(_, _)
Quote(s, safe) ==
    IF s = <<>> THEN <<>>
    ELSE QuoteChar(Head(s), safe) \o Quote(Tail(s), safe)

---------------------------------------------------------------------------
(* Python values *)

PyStr(s)  == [t |-> "str",  s |-> s,    n |-> 0]
PyInt(n)  == [t |-> "int",  s |-> <<>>, n |-> n]
PyList(n) == [t |-> "list", s |-> <<>>, n |-> n]
None      == [t |-> "none", s |-> <<>>, n |-> 0]

\* bool(v)
Truthy(v) ==
    \/ v.t = "str"  /\ v.s # <<>>
    \/ v.t = "int"  /\ v.n # 0
    \/ v.t = "list" /\ v.n > 0

\* whether hash(v) works: a list as a dict key raises TypeError
Hashable(v) == v.t # "list"

---------------------------------------------------------------------------
(* CACHE: chatbot.py:22 *)

NoFields == [f \in {} |-> None]

\* key in CACHE and field in CACHE[key]; only a str equals a key of CACHE
Cached(cache, v, field) ==
    v.t = "str" /\ v.s \in DOMAIN cache /\ field \in DOMAIN cache[v.s]

\* CACHE.setdefault(key, {})[field] = value
CacheSet(cache, key, field, value) ==
    LET old == IF key \in DOMAIN cache THEN cache[key] ELSE NoFields
        new == [f \in DOMAIN old \cup {field} |->
                    IF f = field THEN value ELSE old[f]]
    IN  [k \in DOMAIN cache \cup {key} |-> IF k = key THEN new ELSE cache[k]]

---------------------------------------------------------------------------
(* The collaborators' answers *)

\* What requests.get(WIKI_SEARCH_URL ...) can come to.  status "error": the
\* request, raise_for_status() or r.json() raised.  Else data1 says what
\* data[1] is: "missing" (data[1] raises), "scalar" (a true value that is not
\* subscriptable) or "list", the list being titles.
SearchError      == [status |-> "error", data1 |-> "missing", titles |-> <<>>]
SearchNoData1    == [status |-> "ok", data1 |-> "missing", titles |-> <<>>]
SearchScalar     == [status |-> "ok", data1 |-> "scalar",  titles |-> <<>>]
SearchTitles(ts) == [status |-> "ok", data1 |-> "list",    titles |-> ts]

\* What requests.get(url ...) of the summary can come to.  status "error" as
\* above.  Else isdict says whether data is a JSON object, and extract is
\* data.get("extract") (None when the object has no such key).
SummaryError      == [status |-> "error", isdict |-> FALSE, extract |-> None]
SummaryNotDict    == [status |-> "ok", isdict |-> FALSE, extract |-> None]
SummaryExtract(v) == [status |-> "ok", isdict |-> TRUE,  extract |-> v]

\* What a function call came to: the value returned (ret), or the uncaught
\* exception (exc, "" when none), the cache after it and the requests sent
Returned(v, cache, reqs) == [ret |-> v, exc |-> "", cache |-> cache, reqs |-> reqs]
Raised(e, cache, reqs)   == [ret |-> None, exc |-> e, cache |-> cache, reqs |-> reqs]

---------------------------------------------------------------------------
(* wiki_search_first_title: chatbot.py:64-91 *)

wiki_search_first_title_uncached(cache, query, sresp) ==
    LET q   == Strip(query)
        req == <<[to |-> "search", arg |-> q]>>
    IN  IF q = <<>> THEN Returned(None, cache, <<>>)
        ELSE IF sresp.status = "ok" /\ sresp.data1 = "list" /\ sresp.titles # <<>>
        THEN Returned(sresp.titles[1],
                      CacheSet(cache, q, "title", sresp.titles[1]), req)
        ELSE Returned(None, cache, req)

wiki_search_first_title_retry(cache, query, sresp) ==
    LET q   == Strip(query)
        req == <<[to |-> "search", arg |-> q]>>
    IN  IF q = <<>> THEN Returned(None, cache, <<>>)
        ELSE IF Cached(cache, PyStr(q), "title")
        THEN Returned(cache[q]["title"], cache, <<>>)
        ELSE IF sresp.status = "ok" /\ sresp.data1 = "list" /\ sresp.titles # <<>>
        THEN Returned(sresp.titles[1],
                      CacheSet(cache, q, "title", sresp.titles[1]), req)
        ELSE Returned(None, cache, req \o req)

wiki_search_first_title(cache, query, sresp) ==
    LET q   == Strip(query)
        req == <<[to |-> "search", arg |-> q]>>
    IN  IF q = <<>> THEN Returned(None, cache, <<>>)
        ELSE IF Cached(cache, PyStr(q), "title")
        THEN Returned(cache[q]["title"], cache, <<>>)
        \* inside the try: every exception returns None
        ELSE IF sresp.status = "error" THEN Returned(None, cache, req)
        ELSE IF sresp.data1 = "missing" THEN Returned(None, cache, req)
        ELSE IF sresp.data1 = "scalar" THEN Returned(None, cache, req)
        ELSE IF sresp.titles # <<>>
        THEN Returned(sresp.titles[1],
                      CacheSet(cache, q, "title", sresp.titles[1]), req)
        ELSE Returned(None, cache, req)

---------------------------------------------------------------------------
(* wiki_get_summary: chatbot.py:94-114 *)

wiki_get_summary_caches_any(cache, title, xresp) ==
    IF ~Truthy(title) THEN Returned(None, cache, <<>>)
    ELSE IF ~Hashable(title) THEN Raised("TypeError", cache, <<>>)
    ELSE IF Cached(cache, title, "summary")
    THEN Returned(cache[title.s]["summary"], cache, <<>>)
    ELSE IF title.t # "str" THEN Raised("TypeError", cache, <<>>)
    ELSE LET req == <<[to |-> "summary", arg |-> Quote(title.s, {})]>>
         IN  IF xresp.status = "error" THEN Returned(None, cache, req)
             ELSE IF ~xresp.isdict THEN Returned(None, cache, req)
             ELSE Returned(IF Truthy(xresp.extract) THEN xresp.extract ELSE None,
                           CacheSet(cache, title.s, "summary", xresp.extract), req)

wiki_get_summary_uncached(cache, title, xresp) ==
    IF ~Truthy(title) THEN Returned(None, cache, <<>>)
    ELSE IF ~Hashable(title) THEN Raised("TypeError", cache, <<>>)
    ELSE IF title.t # "str" THEN Raised("TypeError", cache, <<>>)
    ELSE LET req == <<[to |-> "summary", arg |-> Quote(title.s, {})]>>
         IN  IF xresp.status = "ok" /\ xresp.isdict /\ Truthy(xresp.extract)
             THEN Returned(xresp.extract,
                           CacheSet(cache, title.s, "summary", xresp.extract), req)
             ELSE Returned(None, cache, req)

wiki_get_summary(cache, title, xresp) ==
    IF ~Truthy(title) THEN Returned(None, cache, <<>>)
    \* title in CACHE hashes title
    ELSE IF ~Hashable(title) THEN Raised("TypeError", cache, <<>>)
    ELSE IF Cached(cache, title, "summary")
    THEN Returned(cache[title.s]["summary"], cache, <<>>)
    \* urllib.parse.quote(title, safe="") takes a str (or bytes) only
    ELSE IF title.t # "str" THEN Raised("TypeError", cache, <<>>)
    ELSE LET req == <<[to |-> "summary", arg |-> Quote(title.s, {})]>>
         IN  \* inside the try: every exception returns None
             IF xresp.status = "error" THEN Returned(None, cache, req)
             ELSE IF ~xresp.isdict THEN Returned(None, cache, req)
             ELSE IF Truthy(xresp.extract)
             THEN Returned(xresp.extract,
                           CacheSet(cache, title.s, "summary", xresp.extract), req)
             ELSE Returned(None, cache, req)

---------------------------------------------------------------------------
(* short_sentences: chatbot.py:117-124 *)

Punctuation == {".", "?", "!"}

\* re.split(r'(?<=[\.\?\!])\s+', t): cut at every run of white space that
\* starts right after a '.', '?' or '!'; the runs are dropped
RECURSIVE Split(_)
Split(t) ==
    LET starts == {p \in 2..Len(t) : IsSpace(t[p]) /\ t[p - 1] \in Punctuation}
    IN  IF starts = {} THEN <<t>>
        ELSE LET p == CHOOSE p \in starts : \A r \in starts : p <= r
                 e == CHOOSE e \in p..Len(t) :
                          /\ \A k \in p..e : IsSpace(t[k])
                          /\ e + 1 \in DOMAIN t => ~IsSpace(t[e + 1])
             IN  <<SubSeq(t, 1, p - 1)>> \o Split(SubSeq(t, e + 1, Len(t)))

\* sep.join(parts)
RECURSIVE Join(_, _)
Join(parts, sep) ==
    IF parts = <<>> THEN <<>>
    ELSE IF Len(parts) = 1 THEN parts[1]
    ELSE parts[1] \o sep \o Join(Tail(parts), sep)

short_sentences_first_only(t, max_sentences) ==
    LET parts == Split(Strip(t))
    IN  IF parts = <<>> THEN t ELSE Strip(parts[1])

short_sentences(t, max_sentences) ==
    LET parts == Split(Strip(t))
        sel   == SubSeq(parts, 1, IF Len(parts) < max_sentences
                                  THEN Len(parts) ELSE max_sentences)
    IN  IF parts = <<>> THEN t ELSE Strip(Join(sel, <<" ">>))

---------------------------------------------------------------------------
(* answer_query: chatbot.py:127-152 *)

PROMPT == <<"Kuch type karo, main madad karunga.">>

NO_MATCH == <<"Maaf kijiye, mujhe Wikipedia par match nahi mila. Aap query thoda badal ke try kar sakte hain">>

\* f"https://en.wikipedia.org/wiki/{urllib.parse.quote(title.replace(' ', '_'))}"
Link(title) == <<"https://en.wikipedia.org/wiki/">> \o Quote(ReplaceSpaces(title), {"/"})

\* f"**{title}**\n{short}\n\nAgar aur padhna ho: {link}"
Answer(title, sh) ==
    <<"**">> \o title \o <<"**", "\n">> \o sh
             \o <<"\n", "\n", "Agar aur padhna ho: ">> \o Link(title)

\* the message of the else branch, lines 150-152
NoSummary(title) ==
    <<"Maine ek page dhoondh liya: ">> \o title
        \o <<" lekin short summary fetch nahi hui.", "\n",
             "Aap full article yahan dekh sakte hain: ">> \o Link(title)

\* What a call of answer_query came to: the branch taken, the string returned
\* (val) or the exception raised (exc), the cache after it, the requests it
\* sent in order, and what the two lookups returned
Outcome(branch, val, exc, cache, reqs, title, summary) ==
    [branch |-> branch, val |-> val, exc |-> exc, cache |-> cache,
     reqs |-> reqs, title |-> title, summary |-> summary]

\* lines 137-152: the two lookups and the formatting
LookupSummaryAlways(cache, user_input, sresp, xresp) ==
    LET a == wiki_search_first_title(cache, user_input, sresp)
        b == wiki_get_summary(a.cache, IF Truthy(a.ret) THEN a.ret ELSE PyStr(user_input), xresp)
    IN  IF ~Truthy(a.ret)
        THEN Outcome("notitle", NO_MATCH, "", b.cache, a.reqs \o b.reqs, a.ret, None)
        ELSE IF b.exc # ""
        THEN Outcome("raised", <<>>, b.exc, b.cache, a.reqs \o b.reqs, a.ret, None)
        ELSE IF Truthy(b.ret)
        THEN IF b.ret.t # "str"
             THEN Outcome("raised", <<>>, "AttributeError", b.cache,
                          a.reqs \o b.reqs, a.ret, b.ret)
             ELSE Outcome("summary", Answer(a.ret.s, short_sentences(b.ret.s, 2)),
                          "", b.cache, a.reqs \o b.reqs, a.ret, b.ret)
        ELSE Outcome("nosummary", NoSummary(a.ret.s), "", b.cache,
                     a.reqs \o b.reqs, a.ret, b.ret)

Lookup(cache, user_input, sresp, xresp) ==
    LET a == wiki_search_first_title(cache, user_input, sresp)
        b == wiki_get_summary(a.cache, a.ret, xresp)
    IN  IF ~Truthy(a.ret)
        THEN Outcome("notitle", NO_MATCH, "", a.cache, a.reqs, a.ret, None)
        \* an exception of wiki_get_summary passes through answer_query
        ELSE IF b.exc # ""
        THEN Outcome("raised", <<>>, b.exc, b.cache, a.reqs \o b.reqs, a.ret, None)
        ELSE IF Truthy(b.ret)
        THEN \* short_sentences calls text.strip(): only a str has it
             IF b.ret.t # "str"
             THEN Outcome("raised", <<>>, "AttributeError", b.cache,
                          a.reqs \o b.reqs, a.ret, b.ret)
             ELSE Outcome("summary", Answer(a.ret.s, short_sentences(b.ret.s, 2)),
                          "", b.cache, a.reqs \o b.reqs, a.ret, b.ret)
        ELSE Outcome("nosummary", NoSummary(a.ret.s), "", b.cache,
                     a.reqs \o b.reqs, a.ret, b.ret)

answer_query_no_empty_check(cache, user_input, sresp, xresp) ==
    LET ui == Strip(user_input)
        st == check_small_talk(ui)
    IN  IF st # NoReply
        THEN Outcome("smalltalk", st, "", cache, <<>>, None, None)
        ELSE Lookup(cache, ui, sresp, xresp)

answer_query(cache, user_input, sresp, xresp) ==
    LET ui == Strip(user_input)
        st == check_small_talk(ui)
    IN  IF ui = <<>>
        THEN Outcome("empty", PROMPT, "", cache, <<>>, None, None)
        ELSE IF st # NoReply
        THEN Outcome("smalltalk", st, "", cache, <<>>, None, None)
        ELSE Lookup(cache, ui, sresp, xresp)

---------------------------------------------------------------------------
(* The inputs of the model *)

Cat == <<"C", "a", "t">>

AB == <<"A", " ", "B">>

ABC == <<"A", ".", " ", "B", ".", " ", "C", ".">>

\* the strings given to answer_query
UserInputs ==
    {<<>>,
     <<" ", "\t">>,
     <<"h", "i">>,
     <<"t", "h", "x", " ", "b", "y", "e">>,
     <<"H", "e", "y", ",", " ", "k", "y", "a", " ", "h", "a", "a", "l">>,
     <<"h", "e", "l", "p", "f", "u", "l">>,
     <<"t", "h", "i", "s">>,
     <<"c", "a", "t">>,
     <<" ", "C", "a", "t", " ">>}

\* the titles and extracts the collaborators hand back: str, empty str, and
\* JSON of another type
Titles == {PyStr(Cat), PyStr(AB), PyStr(<<>>), PyInt(5), PyList(1)}

Extracts == {PyStr(ABC), PyStr(<<"B", ".">>), PyStr(<<>>), PyInt(5), None}

SearchResponses ==
    {SearchError, SearchNoData1, SearchScalar, SearchTitles(<<>>)}
        \cup {SearchTitles(<<v>>) : v \in Titles}

SummaryResponses ==
    {SummaryError, SummaryNotDict} \cup {SummaryExtract(v) : v \in Extracts}

\* the lines typed at the prompt of main
Lines ==
    {<<" ">>,
     <<"b", "y", "e">>,
     <<" ", "E", "x", "i", "t">>,
     <<"Q", "U", "I", "T">>,
     <<"a", "l", "v", "i", "d", "a">>,
     <<"b", "y", "e", " ", "b", "y", "e">>,
     <<"h", "i">>,
     <<"c", "a", "t">>,
     <<" ", "C", "a", "t", " ">>}

\* the texts given to short_sentences
TextChars == {"A", ".", "?", " ", "\n"}

Texts == UNION {[1..n -> TextChars] : n \in 0..MaxLen} \cup {ABC}

---------------------------------------------------------------------------
(* State *)

EmptyCache == [k \in {} |-> NoFields]

\* what a call of answer_query did, with its argument and the cache before it
Observed(user_input, cache, r) ==
    [input |-> user_input, before |-> cache, branch |-> r.branch, val |-> r.val,
     exc |-> r.exc, reqs |-> r.reqs, title |-> r.title, summary |-> r.summary]

NoCall == Observed(<<>>, EmptyCache,
                   Outcome("none", <<>>, "", EmptyCache, <<>>, None, None))

Silent == [text |-> <<>>, cause |-> ""]

\* the chatbot as the module is loaded
ChatInit ==
    /\ CACHE = EmptyCache
    /\ last = NoCall
    /\ prev = NoCall
    /\ ncalls = 0
    /\ pc = "running"
    /\ out = Silent
    /\ text = <<>>
    /\ short = <<>>

\* tries = 6
InitialTries == 6

\* the hangman script not run
NoGuess == [line |-> <<>>, kind |-> "none", tries |-> InitialTries,
            guessed |-> <<>>]

HangmanIdle ==
    /\ secret_word = <<>>
    /\ guessed_letters = <<>>
    /\ tries = InitialTries
    /\ hpc = "idle"
    /\ congrats = FALSE
    /\ game_over = FALSE
    /\ hlast = NoGuess
    /\ hprev = NoGuess

\* the stock tracker not run
TrackerIdle ==
    /\ portfolio = <<>>
    /\ stock_prices = <<>>
    /\ manual_price_cache = <<>>
    /\ use_live = FALSE
    /\ spc = "idle"
    /\ total_value = 0
    /\ adds = <<>>
    /\ sturns = 0

Init == ChatInit /\ HangmanIdle /\ TrackerIdle

---------------------------------------------------------------------------
(* answer_query called on its own, as a test or another caller would *)

Call(user_input, sresp, xresp) ==
    /\ ncalls < MaxCalls
    /\ LET r == answer_query(CACHE, user_input, sresp, xresp)
       IN  /\ CACHE' = r.cache
           /\ last' = Observed(user_input, CACHE, r)
    /\ prev' = last
    /\ ncalls' = ncalls + 1
    /\ UNCHANGED <<pc, out, text, short, hvars, svars>>

Next ==
    \E user_input \in UserInputs, sresp \in SearchResponses,
       xresp \in SummaryResponses : Call(user_input, sresp, xresp)

Spec == Init /\ [][Next]_vars

---------------------------------------------------------------------------
(* main: chatbot.py:155-173 *)

FAREWELL == <<"Bot: Alvida!">>

EXIT_WORDS ==
    {<<"e", "x", "i", "t">>, <<"b", "y", "e">>,
     <<"q", "u", "i", "t">>, <<"a", "l", "v", "i", "d", "a">>}

\* input() raises EOFError or KeyboardInterrupt: farewell, break
MainEnd(sig) ==
    /\ pc = "running"
    /\ pc' = "exited"
    /\ out' = [text |-> FAREWELL, cause |-> sig]
    /\ UNCHANGED <<CACHE, last, prev, ncalls, text, short, hvars, svars>>

\* One turn of the loop on a line read.  intr = k > 0: Ctrl-C arrives while
\* the k-th request of the turn blocks; requests.get is inside
\* 'except Exception', which does not catch KeyboardInterrupt, and main's try
\* covers input() only.
MainLine(line, sresp, xresp, intr) ==
    /\ pc = "running"
    /\ ncalls < MaxCalls
    /\ ncalls' = ncalls + 1
    /\ UNCHANGED <<text, short, hvars, svars>>
    /\ LET user == Strip(line)
           r    == answer_query(CACHE, user, sresp, xresp)
       IN  IF user = <<>>
           THEN /\ out' = Silent
                /\ UNCHANGED <<CACHE, last, prev, pc>>
           ELSE IF ToLower(user) \in EXIT_WORDS
           THEN /\ pc' = "exited"
                /\ out' = [text |-> FAREWELL, cause |-> "keyword"]
                /\ UNCHANGED <<CACHE, last, prev>>
           ELSE IF intr \in 1..Len(r.reqs)
           THEN /\ pc' = "crashed"
                /\ out' = [text |-> <<"Traceback", "KeyboardInterrupt">>,
                           cause |-> "interrupt"]
                /\ CACHE' = IF intr = 1 THEN CACHE
                            ELSE wiki_search_first_title(CACHE, user, sresp).cache
                /\ UNCHANGED <<last, prev>>
           ELSE /\ CACHE' = r.cache
                /\ last' = Observed(user, CACHE, r)
                /\ prev' = last
                /\ IF r.exc # ""
                   THEN /\ pc' = "crashed"
                        /\ out' = [text |-> <<"Traceback", r.exc>>,
                                   cause |-> "exception"]
                   ELSE /\ pc' = "running"
                        /\ out' = [text |-> <<"Bot: ">> \o r.val \o <<"(lookup)">>,
                                   cause |-> ""]

NextMain ==
    \/ \E sig \in {"eof", "interrupt"} : MainEnd(sig)
    \/ \E line \in Lines, sresp \in SearchResponses,
          xresp \in SummaryResponses, intr \in 0..2 :
              MainLine(line, sresp, xresp, intr)

SpecMain == Init /\ [][NextMain]_vars

---------------------------------------------------------------------------
(* short_sentences on every short text, and the answer built from it *)

InitShort ==
    /\ CACHE = EmptyCache
    /\ last = NoCall
    /\ prev = NoCall
    /\ ncalls = 0
    /\ pc = "text"
    /\ out = Silent
    /\ text \in Texts
    /\ short = <<>>
    /\ HangmanIdle
    /\ TrackerIdle

\* the query "cat" resolves to the title Cat, whose extract is text
Summarise ==
    /\ pc = "text"
    /\ pc' = "short"
    /\ short' = short_sentences(text, 2)
    /\ LET r == answer_query(CACHE, <<"c", "a", "t">>,
                             SearchTitles(<<PyStr(Cat)>>),
                             SummaryExtract(PyStr(text)))
       IN  /\ CACHE' = r.cache
           /\ last' = Observed(<<"c", "a", "t">>, CACHE, r)
    /\ prev' = last
    /\ ncalls' = ncalls + 1
    /\ UNCHANGED <<out, text, hvars, svars>>

NextShort == Summarise

SpecShort == InitShort /\ [][NextShort]_vars

---------------------------------------------------------------------------
(* Hangman: hangman.py:80-125 *)

\* str.isalpha() of one character
IsAlpha(c) == c \in UpperChars \cup Range(LOWER)

\* words of the list: lower case, alphabetic, 4 to 12 letters
HangmanWords ==
    {<<"a", "p", "p", "l", "e">>,
     <<"n", "o", "o", "n">>}

\* the lines typed at "Enter a letter: "
GuessLines ==
    {<<"a">>, <<" ", "P", " ">>, <<"l">>, <<"e">>, <<"n">>, <<"o">>,
     <<"z">>, <<"z", "z">>, <<>>, <<"1">>}

\* reveal_count = 2 if len(secret_word) >= 5 else 1
reveal_count(w) == IF Len(w) >= 5 THEN 2 ELSE 1

\* list(set(letters)): the letters of a set in some order
Orderings(S) == {q \in [1..Cardinality(S) -> S] : Range(q) = S}

\* "".join([ch if ch in guessed_letters else "_" for ch in secret_word])
display_word(w, guessed) ==
    [i \in DOMAIN w |-> IF w[i] \in Range(guessed) THEN w[i] ELSE "_"]

\* lines 107-122: what a line typed does to guessed_letters and tries
GuessStepRecordsWrong(w, guessed, tr, line) ==
    LET guess == ToLower(Strip(line))
    IN  IF ~(\A i \in DOMAIN guess : IsAlpha(guess[i])) \/ Len(guess) # 1
        THEN [kind |-> "invalid", guessed |-> guessed, tries |-> tr]
        ELSE IF guess[1] \in Range(guessed)
        THEN [kind |-> "repeat", guessed |-> guessed, tries |-> tr]
        ELSE IF guess[1] \in Range(w)
        THEN [kind |-> "correct", guessed |-> Append(guessed, guess[1]), tries |-> tr]
        ELSE [kind |-> "wrong", guessed |-> Append(guessed, guess[1]), tries |-> tr - 1]

GuessStep(w, guessed, tr, line) ==
    LET guess == ToLower(Strip(line))
    IN  \* "".isalpha() is False
        IF guess = <<>> \/ ~(\A i \in DOMAIN guess : IsAlpha(guess[i]))
                        \/ Len(guess) # 1
        THEN [kind |-> "invalid", guessed |-> guessed, tries |-> tr]
        ELSE IF guess[1] \in Range(guessed)
        THEN [kind |-> "repeat", guessed |-> guessed, tries |-> tr]
        ELSE IF guess[1] \in Range(w)
        THEN [kind |-> "correct", guessed |-> Append(guessed, guess[1]), tries |-> tr]
        ELSE [kind |-> "wrong", guessed |-> guessed, tries |-> tr - 1]

\* lines 83-92: a word, one or two of its positions revealed, six tries
InitHangman ==
    /\ ChatInit
    /\ TrackerIdle
    /\ secret_word \in HangmanWords
    /\ \E positions \in SUBSET DOMAIN secret_word :
        /\ Cardinality(positions) = reveal_count(secret_word)
        /\ guessed_letters \in Orderings({secret_word[i] : i \in positions})
    /\ tries = InitialTries
    /\ hpc = "loop"
    /\ congrats = FALSE
    /\ game_over = FALSE
    /\ hlast = NoGuess
    /\ hprev = NoGuess

\* lines 99-105 and 124: the word is all revealed: congratulate, break, and
\* the test of tries after the loop
Win ==
    /\ hpc = "loop"
    /\ tries > 0
    /\ display_word(secret_word, guessed_letters) = secret_word
    /\ congrats' = TRUE
    /\ game_over' = (tries = 0)
    /\ hpc' = "over"
    /\ UNCHANGED <<secret_word, guessed_letters, tries, hlast, hprev, cvars, svars>>

\* lines 99-125: one turn of the loop on a line typed; when it leaves no
\* tries the loop ends and the test after the loop prints the game over
Guess(line) ==
    /\ hpc = "loop"
    /\ tries > 0
    /\ display_word(secret_word, guessed_letters) # secret_word
    /\ LET r == GuessStep(secret_word, guessed_letters, tries, line)
       IN  /\ guessed_letters' = r.guessed
           /\ tries' = r.tries
           /\ hlast' = [line |-> line, kind |-> r.kind, tries |-> tries,
                        guessed |-> guessed_letters]
           /\ hpc' = IF r.tries > 0 THEN "loop" ELSE "over"
           /\ game_over' = (r.tries = 0)
    /\ hprev' = hlast
    /\ UNCHANGED <<secret_word, congrats, cvars, svars>>

\* input() raises EOFError or KeyboardInterrupt: nothing catches it
GuessEnd ==
    /\ hpc = "loop"
    /\ tries > 0
    /\ display_word(secret_word, guessed_letters) # secret_word
    /\ hpc' = "crashed"
    /\ UNCHANGED <<secret_word, guessed_letters, tries, congrats, game_over,
                   hlast, hprev, cvars, svars>>

NextHangman ==
    \/ Win
    \/ \E line \in GuessLines : Guess(line)
    \/ GuessEnd

SpecHangman == InitHangman /\ [][NextHangman]_vars

---------------------------------------------------------------------------
(* Stock tracker: hangman.py:139-145 and main, 215-299.  Prices are whole *)
(* numbers here.                                                           *)

\* str.upper()
UpperChar(c) ==
    IF c \in Range(LOWER)
    THEN UPPER[CHOOSE i \in DOMAIN LOWER : LOWER[i] = c]
    ELSE c

ToUpper(s) == [i \in DOMAIN s |-> UpperChar(s[i])]

AAPL == <<"A", "A", "P", "L">>

DONE == <<"D", "O", "N", "E">>

\* the hardcoded prices
STOCK_PRICES ==
    [k \in {AAPL, <<"T", "S", "L", "A">>, <<"G", "O", "O", "G", "L">>,
            <<"M", "S", "F", "T">>, <<"A", "M", "Z", "N">>} |->
        IF k = AAPL THEN 180
        ELSE IF k = <<"T", "S", "L", "A">> THEN 250
        ELSE IF k = <<"G", "O", "O", "G", "L">> THEN 130
        ELSE IF k = <<"M", "S", "F", "T">> THEN 320
        ELSE 140]

\* the None of Python, as a price
NoPrice == -1

\* d.get(k)
Get(d, k) == IF k \in DOMAIN d THEN d[k] ELSE NoPrice

\* a or b, for prices: a unless it is None or 0.0
Or(a, b) == IF a # NoPrice /\ a # 0 THEN a ELSE b

\* d[k] = v
Put(d, k, v) == [x \in DOMAIN d \cup {k} |-> IF x = k THEN v ELSE d[x]]

\* the lines typed at "Enter stock symbol (or 'done'): "
SymbolLines ==
    {<<>>,
     <<"d", "o", "n", "e">>,
     <<" ", "a", "a", "p", "l">>,
     <<"X", "Y", "Z">>}

\* what fetch_live_price returns, the prices typed, the quantities typed
\* (input_positive_float and input_positive_int return numbers >= 0)
LivePrices == {NoPrice, 181, 5}

TypedPrices == {0, 7, 9}

TypedQuantities == {0, 1, 2}

\* lines 281-284: the shares added to the portfolio
AddSharesNewPrice(pf, sym, qty, price) ==
    IF sym \in DOMAIN pf
    THEN Put(pf, sym, [qty |-> pf[sym].qty + qty, price |-> price])
    ELSE Put(pf, sym, [qty |-> qty, price |-> price])

AddShares(pf, sym, qty, price) ==
    IF sym \in DOMAIN pf
    THEN Put(pf, sym, [qty |-> pf[sym].qty + qty, price |-> pf[sym].price])
    ELSE Put(pf, sym, [qty |-> qty, price |-> price])

\* lines 292-299: total_value
RECURSIVE Total(_, _)
Total(pf, syms) ==
    IF syms = {} THEN 0
    ELSE LET k == CHOOSE k \in syms : TRUE
         IN  pf[k].qty * pf[k].price + Total(pf, syms \ {k})

\* main up to the entry loop, yfinance present when live prices are asked for
InitTracker ==
    /\ ChatInit
    /\ HangmanIdle
    /\ portfolio = <<>>
    /\ stock_prices = STOCK_PRICES
    /\ manual_price_cache = <<>>
    /\ use_live \in BOOLEAN
    /\ spc = "entry"
    /\ total_value = 0
    /\ adds = <<>>
    /\ sturns = 0

\* lines 228-285: one turn of the entry loop on a symbol that is not "done".
\* live: what fetch_live_price returns; yes: the answer to the y/n question
\* of the turn; typed: the price typed when one is asked for; qty: the
\* quantity typed.
Entry(line, live, yes, typed, qty) ==
    /\ spc = "entry"
    /\ sturns < MaxTurns
    /\ sturns' = sturns + 1
    /\ LET sym == ToUpper(Strip(line))
           \* lines 235-265: price, the dictionaries after them, and whether
           \* the stock is skipped at line 263
           p1 == IF use_live
                 THEN IF live # NoPrice THEN live
                      ELSE IF yes THEN typed ELSE NoPrice
                 ELSE IF sym \notin DOMAIN stock_prices
                      THEN IF yes THEN typed ELSE NoPrice
                      ELSE stock_prices[sym]
           skipped == ~use_live /\ sym \notin DOMAIN stock_prices /\ ~yes
           manual == IF use_live /\ live = NoPrice /\ yes
                     THEN Put(manual_price_cache, sym, typed)
                     ELSE manual_price_cache
           table == IF ~use_live /\ sym \notin DOMAIN stock_prices /\ yes
                    THEN Put(stock_prices, sym, typed)
                    ELSE stock_prices
           \* lines 268-269
           price == IF p1 = NoPrice THEN Or(Get(manual, sym), Get(table, sym))
                    ELSE p1
       IN  /\ sym # DONE
           /\ IF sym = <<>>
              THEN UNCHANGED <<portfolio, stock_prices, manual_price_cache, adds>>
              ELSE /\ manual_price_cache' = manual
                   /\ stock_prices' = table
                   /\ IF skipped \/ price = NoPrice \/ qty = 0
                      THEN UNCHANGED <<portfolio, adds>>
                      ELSE /\ portfolio' = AddShares(portfolio, sym, qty, price)
                           /\ adds' = Append(adds, [sym |-> sym, qty |-> qty,
                                                    price |-> price])
    /\ UNCHANGED <<use_live, spc, total_value, cvars, hvars>>

\* lines 230-231 and 287-299: "done" ends the loop; an empty portfolio
\* returns, else the values are added up
Done(line) ==
    /\ spc = "entry"
    /\ ToUpper(Strip(line)) = DONE
    /\ IF DOMAIN portfolio = {}
       THEN /\ spc' = "empty"
            /\ UNCHANGED total_value
       ELSE /\ spc' = "summary"
            /\ total_value' = Total(portfolio, DOMAIN portfolio)
    /\ UNCHANGED <<portfolio, stock_prices, manual_price_cache, use_live, adds,
                   sturns, cvars, hvars>>

NextTracker ==
    \/ \E line \in SymbolLines, live \in LivePrices, yes \in BOOLEAN,
          typed \in TypedPrices, qty \in TypedQuantities :
              Entry(line, live, yes, typed, qty)
    \/ \E line \in SymbolLines : Done(line)

SpecTracker == InitTracker /\ [][NextTracker]_vars

---------------------------------------------------------------------------
(* Properties *)

Contains(s, sub) ==
    \E i \in 0..(Len(s) - Len(sub)) : SubSeq(s, i + 1, i + Len(sub)) = sub

Count(reqs, to) == Cardinality({i \in DOMAIN reqs : reqs[i].to = to})

\* the latest call went on to the lookups (neither empty input nor small talk)
LookedUp(c) == c.branch \in {"notitle", "nosummary", "summary", "raised"}

\* the fields of cache a that cache b holds too, with the same values
Kept(a, b) ==
    \A k \in DOMAIN a :
        /\ k \in DOMAIN b
        /\ \A f \in DOMAIN a[k] : f \in DOMAIN b[k] /\ b[k][f] = a[k][f]

\* the keys of a cache that hold a summary
WithSummary(cache) == {k \in DOMAIN cache : "summary" \in DOMAIN cache[k]}

\* C1 (as claimed): every call of answer_query returns a string and raises
\* nothing, whatever the collaborators hand back.
C1_NeverRaises == ncalls > 0 => last.exc = ""

\* the latest two calls had the same query, matched no small-talk rule and
\* both returned
Twice ==
    /\ LookedUp(prev) /\ LookedUp(last)
    /\ prev.input = last.input
    /\ prev.exc = "" /\ last.exc = ""

C3_Memoized ==
    ncalls > 0 =>
        /\ Kept(last.before, CACHE)
        /\ LookedUp(last) =>
            LET q == PyStr(Strip(last.input))
            IN  /\ Cached(last.before, q, "title") =>
                    /\ Count(last.reqs, "search") = 0
                    /\ last.title = last.before[q.s]["title"]
                /\ (last.exc = "" /\ Cached(last.before, last.title, "summary")) =>
                    /\ Count(last.reqs, "summary") = 0
                    /\ last.summary = last.before[last.title.s]["summary"]

\* both fields were cached before the call, and a search and a summary
\* response with another title and another extract leave the call's outcome
\* and the cache as they are
C3_Witness ==
    /\ last.branch = "summary" /\ last.reqs = <<>>
    /\ \E sresp \in SearchResponses, xresp \in SummaryResponses :
        /\ sresp.titles # <<>> /\ Truthy(sresp.titles[1])
        /\ sresp.titles[1] # last.title
        /\ Truthy(xresp.extract) /\ xresp.extract # last.summary
        /\ LET r == answer_query(last.before, last.input, sresp, xresp)
           IN  r.title = last.title /\ r.summary = last.summary /\ r.cache = CACHE

\* the rules of SMALL_TALK that match s
Matching(s) == {i \in DOMAIN SMALL_TALK : Search(SMALL_TALK[i].pattern, s)}

\* C4: an input that matches a small-talk rule gets the first reply of the
\* first matching rule in the order greeting, howare, imfine, thanks,
\* farewell, help; no request is sent and the cache stays as it was.
C4_SmallTalkFirst ==
    LET m == Matching(Strip(last.input))
        order == <<"greeting", "howare", "imfine", "thanks", "farewell", "help">>
    IN  (ncalls > 0 /\ m # {}) =>
            /\ \E i \in m :
                /\ SMALL_TALK[i].name = order[i]
                /\ \A j \in m : i <= j
                /\ last.val = SMALL_TALK[i].replies[1]
            /\ last.exc = ""
            /\ last.reqs = <<>>
            /\ CACHE = last.before

\* an input that matches two rules, answered while the cache holds entries
C4_Witness ==
    /\ ncalls > 0
    /\ Cardinality(Matching(Strip(last.input))) > 1
    /\ last.val = <<"Aapka swagat hai!">>
    /\ last.before # EmptyCache

\* C5: empty or whitespace-only input gets the fixed prompt; no request is
\* sent and the cache is the same before and after.
C5_EmptyInput ==
    (ncalls > 0 /\ \A i \in DOMAIN last.input : IsSpace(last.input[i])) =>
        /\ last.val = PROMPT
        /\ last.exc = ""
        /\ last.reqs = <<>>
        /\ CACHE = last.before

C5_Witness ==
    /\ ncalls > 0
    /\ last.input = <<" ", "\t">>
    /\ last.val = PROMPT
    /\ last.before # EmptyCache

\* C6: when title resolution yields no title (the search fails, hands back no
\* title or an empty one), the answer is the fixed no-match message and no
\* summary request is sent in that call.
C6_NoTitleNoSummary ==
    (LookedUp(last) /\ ~Truthy(last.title)) =>
        /\ last.val = NO_MATCH
        /\ last.exc = ""
        /\ Count(last.reqs, "summary") = 0

\* a search was sent and gave no title, while the cache held a summary
C6_Witness ==
    /\ LookedUp(last) /\ last.title = None
    /\ Count(last.reqs, "search") = 1
    /\ WithSummary(last.before) # {}

\* C7: when a title is resolved and the summary request fails or gives no
\* extract, the answer is the no-summary message with the title and the link
\* built from the title, and no summary field is written to the cache.
C7_NoSummaryMessage ==
    (/\ LookedUp(last) /\ last.exc = ""
     /\ Count(last.reqs, "summary") = 1
     /\ ~Truthy(last.summary)) =>
        /\ last.title.t = "str"
        /\ last.val = NoSummary(last.title.s)
        /\ Contains(last.val, last.title.s)
        /\ Contains(last.val, <<"https://en.wikipedia.org/wiki/">>
                                  \o Quote(ReplaceSpaces(last.title.s), {"/"}))
        /\ WithSummary(CACHE) = WithSummary(last.before)

\* the title A B, whose link holds A_B, found and no summary got
C7_Witness ==
    /\ last.branch = "nosummary"
    /\ Count(last.reqs, "summary") = 1
    /\ last.title = PyStr(AB)
    /\ Contains(last.val, <<"A", "_", "B">>)

\* C10: a call sends at most two requests, at most one search and at most
\* one summary request, and a summary request only after title resolution
\* gave a title.
C10_AtMostTwoRequests ==
    ncalls > 0 =>
        /\ Len(last.reqs) <= 2
        /\ Count(last.reqs, "search") <= 1
        /\ Count(last.reqs, "summary") <= 1
        /\ \A i \in DOMAIN last.reqs :
            last.reqs[i].to = "summary" =>
                /\ Truthy(last.title)
                /\ \A j \in DOMAIN last.reqs : last.reqs[j].to = "search" => j < i

C10_Witness ==
    /\ Len(last.reqs) = 2
    /\ last.reqs[1].to = "search" /\ last.reqs[2].to = "summary"

\* the fields of cache b that cache a does not hold: pairs <<key, field>>
Added(a, b) ==
    {kf \in UNION {{<<k, f>> : f \in DOMAIN b[k]} : k \in DOMAIN b} :
        ~(kf[1] \in DOMAIN a /\ kf[2] \in DOMAIN a[kf[1]])}

\* C11 (as claimed): the cache only grows and only on success: a title
\* resolution or summary request that fails or comes back empty leaves CACHE
\* as it was, and no call removes a key or a field.
C11_GrowsOnlyOnSuccess ==
    ncalls > 0 =>
        /\ Kept(last.before, CACHE)
        /\ (Count(last.reqs, "search") = 1 /\ ~Truthy(last.title)) =>
                CACHE = last.before
        /\ (Count(last.reqs, "summary") = 1 /\ ~Truthy(last.summary)) =>
                WithSummary(CACHE) = WithSummary(last.before)
        /\ \A kf \in Added(last.before, CACHE) : Truthy(CACHE[kf[1]][kf[2]])

\* the latest call looked up a query whose title was not cached and got the
\* title T, while another query held the title T and T held a summary
SharedSummary ==
    LET q == Strip(last.input)
        T == last.title
    IN  /\ LookedUp(last)
        /\ ~Cached(last.before, PyStr(q), "title")
        /\ Cached(last.before, T, "summary")
        /\ \E q1 \in DOMAIN last.before :
            /\ q1 # q
            /\ "title" \in DOMAIN last.before[q1]
            /\ last.before[q1]["title"] = T

\* C12 (as claimed): a query that resolves to a title whose summary another
\* query cached is answered with the cached summary, sends no summary
\* request and sends its own search request; a summary stored under the key
\* T does not serve as the title of the query T.
C12_SharedSummary ==
    /\ SharedSummary =>
        /\ Count(last.reqs, "search") = 1
        /\ Count(last.reqs, "summary") = 0
        /\ last.summary = last.before[last.title.s]["summary"]
        /\ last.exc = ""
        /\ last.val = Answer(last.title.s, short_sentences(last.summary.s, 2))
    /\ (/\ LookedUp(last)
        /\ Strip(last.input) \in WithSummary(last.before)
        /\ "title" \notin DOMAIN last.before[Strip(last.input)]) =>
            Count(last.reqs, "search") = 1

\* the guess a line typed stands for, whether it is one letter, and whether
\* that letter is missing from the word
GuessOf(g) == ToLower(Strip(g.line))

ValidGuess(g) == Len(GuessOf(g)) = 1 /\ IsAlpha(GuessOf(g)[1])

WrongGuess(g) ==
    g.kind # "none" /\ ValidGuess(g) /\ GuessOf(g)[1] \notin Range(secret_word)

\* C13: tries stays within 0..6 and goes down, by one, only on a valid
\* one-letter guess that is not in the word; wrong letters are not recorded,
\* so the same wrong letter costs a try each time; invalid input and a letter
\* already revealed change nothing; the game ends in a win (all revealed,
\* tries > 0) or in a loss (tries = 0), never both.
C13_Hangman ==
    /\ tries \in 0..6
    /\ \A i \in DOMAIN guessed_letters : guessed_letters[i] \in Range(secret_word)
    /\ hlast.kind # "none" =>
        /\ WrongGuess(hlast) =>
            tries = hlast.tries - 1 /\ guessed_letters = hlast.guessed
        /\ ~WrongGuess(hlast) => tries = hlast.tries
        /\ (~ValidGuess(hlast) \/ GuessOf(hlast)[1] \in Range(hlast.guessed)) =>
            tries = hlast.tries /\ guessed_letters = hlast.guessed
    /\ (WrongGuess(hlast) /\ WrongGuess(hprev) /\ GuessOf(hlast) = GuessOf(hprev)) =>
            tries = hprev.tries - 2
    /\ ~(congrats /\ game_over)
    /\ hpc = "over" =>
        /\ congrats \/ game_over
        /\ congrats => /\ tries > 0
                       /\ \A i \in DOMAIN secret_word :
                            secret_word[i] \in Range(guessed_letters)
        /\ game_over => tries = 0

\* the game lost on a wrong letter typed twice in a row
C13_Witness ==
    /\ hpc = "over" /\ game_over /\ tries = 0
    /\ WrongGuess(hlast) /\ WrongGuess(hprev)
    /\ GuessOf(hlast) = GuessOf(hprev)

\* the game won after an invalid line left everything as it was
C13_WitnessWin ==
    /\ hpc = "over" /\ congrats
    /\ hprev.kind = "invalid"

\* the additions of a symbol, in order
AddsOf(sym) == SelectSeq(adds, LAMBDA a : a.sym = sym)

\* the quantities of the first n additions of a list, added up
RECURSIVE SumQty(_, _)
SumQty(as, n) == IF n = 0 THEN 0 ELSE as[n].qty + SumQty(as, n - 1)

\* the accumulated quantity of every addition times the price of the first
\* addition of its symbol, over the first n additions
RECURSIVE Expected(_)
Expected(n) ==
    IF n = 0 THEN 0
    ELSE adds[n].qty * AddsOf(adds[n].sym)[1].price + Expected(n - 1)

\* C14: a symbol is in the portfolio exactly when it was added; its
\* quantity is the sum of the quantities of all its additions and its
\* price is the price of its first addition, whatever the price of the
\* later ones; every quantity is at least 1; and the total reported is the
\* sum over the symbols of accumulated quantity times first price.
C14_FirstPriceKept ==
    /\ DOMAIN portfolio = {adds[i].sym : i \in DOMAIN adds}
    /\ \A sym \in DOMAIN portfolio :
           /\ portfolio[sym].qty = SumQty(AddsOf(sym), Len(AddsOf(sym)))
           /\ portfolio[sym].price = AddsOf(sym)[1].price
           /\ portfolio[sym].qty >= 1
    /\ spc = "summary" => total_value = Expected(Len(adds))
    /\ spc = "empty" => adds = <<>>

\* a symbol added twice at different prices, and the total reported
C14_Witness ==
    /\ spc = "summary"
    /\ \E i, j \in DOMAIN adds :
           /\ i < j
           /\ adds[i].sym = adds[j].sym
           /\ adds[i].price # adds[j].price
           /\ portfolio[adds[i].sym].qty = adds[i].qty + adds[j].qty

\* C8 (as claimed): the loop of main ends only on an exit keyword, on end of
\* input or on an interrupt, and the farewell is printed before it ends.
C8_EndsOnlyWithFarewell ==
    pc # "running" =>
        /\ pc = "exited"
        /\ out.cause \in {"keyword", "eof", "interrupt"}
        /\ out.text = FAREWELL

\* the ends of the sentence segments of t but the last: a '.', '?' or '!'
\* with white space right after it
Cuts(t) == {p \in 1..(Len(t) - 1) : t[p] \in Punctuation /\ IsSpace(t[p + 1])}

FirstCut(t) == CHOOSE p \in Cuts(t) : \A r \in Cuts(t) : p <= r

FirstSegment(t) == IF Cuts(t) = {} THEN t ELSE SubSeq(t, 1, FirstCut(t))

\* t from its second segment on
AfterFirst(t) ==
    LET rest == {k \in (FirstCut(t) + 1)..Len(t) : ~IsSpace(t[k])}
    IN  IF rest = {} THEN <<>>
        ELSE SubSeq(t, CHOOSE k \in rest : \A r \in rest : k <= r, Len(t))

\* the first two segments of t with one space between them; t when it has
\* fewer than two
FirstTwo(t) ==
    IF Cuts(t) = {} THEN t
    ELSE FirstSegment(t) \o <<" ">> \o FirstSegment(AfterFirst(t))

\* C9 (as claimed): the result is the first two segments of the summary
\* joined by one space, and the whole summary when it has fewer than two.
C9_FirstTwoOfSummary ==
    (pc = "short" /\ Strip(text) # <<>>) => short = FirstTwo(text)

\* C9 (amended): the result is the first two segments of the summary with
\* the white space around it stripped, joined by one space, and all of the
\* stripped summary when it has fewer than two; the answer holds that result
\* between the title line and the link line, so for A. B. C. it holds A. B.
\* and not C.
C9_FirstTwoOfStripped ==
    pc = "short" =>
        /\ short = FirstTwo(Strip(text))
        /\ text # <<>> =>
            last.val = <<"**">> \o Cat \o <<"**", "\n">> \o FirstTwo(Strip(text))
                         \o <<"\n", "\n", "Agar aur padhna ho: ",
                              "https://en.wikipedia.org/wiki/">> \o Cat
        /\ text = ABC =>
            /\ short = <<"A", ".", " ", "B", ".">>
            /\ Contains(last.val, <<"A", ".", " ", "B", ".">>)
            /\ ~Contains(last.val, <<"C", ".">>)

\* the summary of three segments, truncated to its first two in the answer
C9_Witness ==
    /\ pc = "short"
    /\ text = ABC
    /\ last.branch = "summary"
    /\ short = <<"A", ".", " ", "B", ".">>

====
